---------------------------- MODULE Spec2Model ----------------------------
(***************************************************************************)
(* Model of the validate_request decorator of                              *)
(* oauth2server/apps/accounts/decorators.py: the pipeline that extracts    *)
(* and verifies the client, the user candidate and its optional            *)
(* attributes before the protected handler runs.                           *)
(*                                                                         *)
(* Strings are sequences of one-character strings, so that splitting,      *)
(* lower-casing and base64 decoding are computed as the code computes      *)
(* them.  The code is Python 2 (str.split on the result of b64decode).     *)
(***************************************************************************)
EXTENDS Integers, Sequences, FiniteSets, TLC

(* ------------------------------------------------------------------ *)
(* Bounds                                                               *)
(* ------------------------------------------------------------------ *)

\* number of colon-separated fields generated in a Basic payload
MaxFields == 3

\* number of names generated in a scope field
MaxScopeNames == 2

\* number of requests that can be in flight (one worker each)
NumProcs == 2

Procs == 1..NumProcs

(* ------------------------------------------------------------------ *)
(* Strings                                                              *)
(* ------------------------------------------------------------------ *)

\* the base64 alphabet, in value order (index - 1 is the 6-bit value)
B64Alphabet ==
  << "A","B","C","D","E","F","G","H","I","J","K","L","M",
     "N","O","P","Q","R","S","T","U","V","W","X","Y","Z",
     "a","b","c","d","e","f","g","h","i","j","k","l","m",
     "n","o","p","q","r","s","t","u","v","w","x","y","z",
     "0","1","2","3","4","5","6","7","8","9","+","/" >>

B64Pad == "="

\* ASCII codes of the characters that occur in decoded payloads
AsciiTable ==
  << <<"1", 49>>, <<"2", 50>>, <<":", 58>>, <<"a", 97>>, <<"b", 98>>,
     <<"c", 99>>, <<"d", 100>>, <<"n", 110>>, <<"o", 111>>, <<"s", 115>> >>

Ord(ch) ==
  LET i == CHOOSE j \in 1..Len(AsciiTable) : AsciiTable[j][1] = ch
  IN  AsciiTable[i][2]

\* a byte outside the table prints as "?"
Chr(code) ==
  IF \E j \in 1..Len(AsciiTable) : AsciiTable[j][2] = code
  THEN AsciiTable[CHOOSE j \in 1..Len(AsciiTable) : AsciiTable[j][2] = code][1]
  ELSE "?"

IsB64Char(ch) == \E j \in 1..64 : B64Alphabet[j] = ch

B64Value(ch) == (CHOOSE j \in 1..64 : B64Alphabet[j] = ch) - 1

\* str.lower() on one character: A-Z are the first 26 letters of the alphabet
LowerChar(ch) ==
  IF \E j \in 1..26 : B64Alphabet[j] = ch
  THEN B64Alphabet[(CHOOSE j \in 1..26 : B64Alphabet[j] = ch) + 26]
  ELSE ch

Lower(s) == [i \in 1..Len(s) |-> LowerChar(s[i])]

RECURSIVE SplitFrom(_, _, _, _)
\* parts of s[i..] cut at every character of delims, cur being the part
\* collected so far; adjacent delimiters give empty parts
SplitFrom(s, delims, i, cur) ==
  IF i > Len(s) THEN << cur >>
  ELSE IF s[i] \in delims
       THEN << cur >> \o SplitFrom(s, delims, i + 1, << >>)
       ELSE SplitFrom(s, delims, i + 1, Append(cur, s[i]))

\* re.split / str.split without maxsplit
Split(s, delims) == SplitFrom(s, delims, 1, << >>)

RECURSIVE Join(_, _)
Join(fields, sep) ==
  IF Len(fields) = 0 THEN << >>
  ELSE IF Len(fields) = 1 THEN fields[1]
  ELSE fields[1] \o << sep >> \o Join(Tail(fields), sep)

(* ------------------------------------------------------------------ *)
(* base64 (binascii.b2a_base64 / a2b_base64 of Python 2)               *)
(* ------------------------------------------------------------------ *)

Pow2(n) == 2 ^ n

RECURSIVE B64Encode(_)
\* encoding of a string of table characters, three bytes at a time
B64Encode(s) ==
  IF Len(s) = 0 THEN << >>
  ELSE IF Len(s) = 1
  THEN LET b == Ord(s[1]) IN
       << B64Alphabet[(b \div 4) + 1], B64Alphabet[((b % 4) * 16) + 1],
          B64Pad, B64Pad >>
  ELSE IF Len(s) = 2
  THEN LET b == Ord(s[1]) * 256 + Ord(s[2]) IN
       << B64Alphabet[(b \div 1024) + 1], B64Alphabet[((b \div 16) % 64) + 1],
          B64Alphabet[((b % 16) * 4) + 1], B64Pad >>
  ELSE LET b == Ord(s[1]) * 65536 + Ord(s[2]) * 256 + Ord(s[3]) IN
       << B64Alphabet[(b \div 262144) + 1], B64Alphabet[((b \div 4096) % 64) + 1],
          B64Alphabet[((b \div 64) % 64) + 1], B64Alphabet[(b % 64) + 1] >>
       \o B64Encode(SubSeq(s, 4, Len(s)))

\* the failure of a2b_base64, kept apart from every decoded string
B64Error == << "Incorrect padding" >>

RECURSIVE NextValid(_, _)
\* binascii_find_valid: the next character of s[i..] that is in the table
\* (the pad character is in it), or "" when there is none
NextValid(s, i) ==
  IF i > Len(s) THEN ""
  ELSE IF IsB64Char(s[i]) \/ s[i] = B64Pad THEN s[i]
  ELSE NextValid(s, i + 1)

RECURSIVE A2B(_, _, _, _, _, _)
\* the loop of a2b_base64 from position i: quad is the position in the
\* current group of four, leftbits/leftchar the bits not yet written
A2B(s, i, quad, leftbits, leftchar, out) ==
  IF i > Len(s)
  THEN IF leftbits # 0 THEN B64Error ELSE out
  ELSE IF s[i] = B64Pad
  THEN IF quad < 2 \/ (quad = 2 /\ NextValid(s, i + 1) # B64Pad)
       THEN A2B(s, i + 1, quad, leftbits, leftchar, out)
       ELSE out
  ELSE IF ~IsB64Char(s[i])
  THEN A2B(s, i + 1, quad, leftbits, leftchar, out)
  ELSE LET lc == leftchar * 64 + B64Value(s[i])
           lb == leftbits + 6
       IN  IF lb >= 8
           THEN A2B(s, i + 1, (quad + 1) % 4, lb - 8, lc % Pow2(lb - 8),
                    Append(out, Chr((lc \div Pow2(lb - 8)) % 256)))
           ELSE A2B(s, i + 1, (quad + 1) % 4, lb, lc, out)

\* base64.b64decode: the decoded string, or B64Error (a TypeError)
b64decode(s) == A2B(s, 1, 0, 0, 0, << >>)

(* ------------------------------------------------------------------ *)
(* Values                                                               *)
(* ------------------------------------------------------------------ *)

\* Python's None, kept apart from every string
None == << "None" >>

\* Python's False, kept apart from every string
PyFalse == << "False" >>

\* the value a field of a fresh OAuthUser has before the pipeline sets it
ModelDefault == << "default" >>

NoExc == "NoException"

\* the error kinds of proj.exceptions that the pipeline raises
Taxonomy ==
  { "ClientCredentialsRequired", "InvalidClientCredentials",
    "UsernameRequired", "PasswordRequired", "InvalidUserCredentials",
    "DuplicateUser" }

\* exceptions of the interpreter, which are no error kind of the taxonomy
Uncaught == { "ValueError", "TypeError" }

C1 == << "c", "1" >>
S1 == << "s", "1" >>

Basic == << "b", "a", "s", "i", "c" >>

\* the separators of re.split(':|;|,| ', auth_header)
HeaderDelims == { ":", ";", ",", " " }

Placeholder == << "No name given" >>

\* the empty QueryDict / META
EmptyDict == [k \in {} |-> None]

Has(d, k) == k \in DOMAIN d

\* truth value of a str-or-None in "if not x"
Falsy(v) == v = None \/ v = << >>

(* ------------------------------------------------------------------ *)
(* _extract_client                                                      *)
(* ------------------------------------------------------------------ *)

Creds(exc, id, secret) == [exc |-> exc, id |-> id, secret |-> secret]

\* lines 70-80: the pair taken from the Authorization header
HeaderCreds(META) ==
  IF ~Has(META, "HTTP_AUTHORIZATION") THEN Creds(NoExc, None, None)
  ELSE LET parts == Split(META["HTTP_AUTHORIZATION"], HeaderDelims) IN
       IF Len(parts) # 2 THEN Creds("ValueError", None, None)
       ELSE IF Lower(parts[1]) # Basic THEN Creds(NoExc, None, None)
       ELSE LET dec == b64decode(parts[2]) IN
            IF dec = B64Error THEN Creds("TypeError", None, None)
            ELSE LET f == Split(dec, {":"}) IN
                 IF Len(f) # 2 THEN Creds("ValueError", None, None)
                 ELSE Creds(NoExc, f[1], f[2])

\* lines 89-94 with a try of its own around each field, so that a field the
\* query lacks keeps the value it had
GetCreds_Merging(id, secret, GET) ==
  LET i == IF Has(GET, "client_id") THEN GET["client_id"] ELSE id
      x == IF Has(GET, "client_secret") THEN GET["client_secret"] ELSE secret
  IN  IF Falsy(i) \/ Falsy(x) THEN Creds("ClientCredentialsRequired", i, x)
      ELSE Creds(NoExc, i, x)

\* lines 89-94: the inner try, entered with the locals as the outer try left
\* them; a KeyError leaves the locals assigned so far and raises
GetCreds(id, secret, GET) ==
  IF ~Has(GET, "client_id") THEN Creds("ClientCredentialsRequired", id, secret)
  ELSE IF ~Has(GET, "client_secret")
       THEN Creds("ClientCredentialsRequired", GET["client_id"], secret)
       ELSE Creds(NoExc, GET["client_id"], GET["client_secret"])

\* lines 82-94: fallback to POST and then to GET
FallbackCreds(h, POST, GET) ==
  IF ~(Falsy(h.id) \/ Falsy(h.secret)) THEN h
  ELSE IF ~Has(POST, "client_id") THEN GetCreds(h.id, h.secret, GET)
       ELSE IF ~Has(POST, "client_secret")
            THEN GetCreds(POST["client_id"], h.secret, GET)
            ELSE Creds(NoExc, POST["client_id"], POST["client_secret"])

\* OAuthClient.verify_password of the credential store
verify_password(store, id, secret) == store[id] = secret

ClientResult(exc, client, creds, lookups) ==
  [exc |-> exc, client |-> client, id |-> creds.id, secret |-> creds.secret,
   lookups |-> lookups]

\* lines 96-106 without the check of line 103
StoreCheck_Unverified(c, store) ==
  IF c.id \notin DOMAIN store
  THEN ClientResult("InvalidClientCredentials", None, c, 1)
  ELSE ClientResult(NoExc, c.id, c, 1)

\* lines 96-106 with a kind of its own for a client that does not exist
StoreCheck_NotFoundKind(c, store) ==
  IF c.id \notin DOMAIN store
  THEN ClientResult("ClientCredentialsRequired", None, c, 1)
  ELSE IF ~verify_password(store, c.id, c.secret)
       THEN ClientResult("InvalidClientCredentials", None, c, 1)
       ELSE ClientResult(NoExc, c.id, c, 1)

\* lines 96-106: the client is looked up by id, its secret is verified and
\* it is attached to the request
StoreCheck(c, store) ==
  IF c.id \notin DOMAIN store
  THEN ClientResult("InvalidClientCredentials", None, c, 1)
  ELSE IF ~verify_password(store, c.id, c.secret)
       THEN ClientResult("InvalidClientCredentials", None, c, 1)
       ELSE ClientResult(NoExc, c.id, c, 1)

\* _extract_client as a whole: the exception raised (or NoExc), the client
\* attached to the request, the pair of local variables at the end and the
\* number of store lookups made
extract_client(req, store) ==
  LET h == HeaderCreds(req.META) IN
  IF h.exc # NoExc THEN ClientResult(h.exc, None, h, 0)
  ELSE LET c == FallbackCreds(h, req.POST, req.GET) IN
       IF c.exc # NoExc THEN ClientResult(c.exc, None, c, 0)
       ELSE StoreCheck(c, store)

(* ------------------------------------------------------------------ *)
(* _extract_username                                                    *)
(* ------------------------------------------------------------------ *)

\* request.POST[key], and request.GET[key] on KeyError; found is FALSE when
\* both raise KeyError
Lookup(req, key) ==
  IF Has(req.POST, key) THEN [found |-> TRUE, value |-> req.POST[key]]
  ELSE IF Has(req.GET, key) THEN [found |-> TRUE, value |-> req.GET[key]]
  ELSE [found |-> FALSE, value |-> None]

RECURSIVE LastIndex(_, _, _)
\* the last position of ch in s[1..i], 0 when there is none
LastIndex(s, ch, i) ==
  IF i = 0 THEN 0 ELSE IF s[i] = ch THEN i ELSE LastIndex(s, ch, i - 1)

\* django.core.validators.validate_email: a non-empty value with an "@",
\* cut at the last "@" into a user part (a non-empty dot-atom) and a domain
\* part (labels separated by dots, the last of two characters or more)
validate_email(value) ==
  /\ value # << >>
  /\ \E i \in 1..Len(value) : value[i] = "@"
  /\ LET at     == LastIndex(value, "@", Len(value))
         user   == SubSeq(value, 1, at - 1)
         domain == SubSeq(value, at + 1, Len(value))
         atoms  == Split(user, {"."})
         labels == Split(domain, {"."})
     IN  /\ \A i \in 1..Len(user) : user[i] # "@"
         /\ \A i \in 1..Len(atoms) : atoms[i] # << >>
         /\ Len(labels) >= 2
         /\ \A i \in 1..Len(labels) : labels[i] # << >>
         /\ Len(labels[Len(labels)]) >= 2

\* OAuthUser(email=..., password=..., first_name=..., last_name=...)
OAuthUser(email, password, first, last) ==
  [email |-> email, password |-> password, first_name |-> first,
   last_name |-> last, account_is_verified |-> ModelDefault]

\* request.user before _extract_username has attached the candidate
NoUser == OAuthUser(None, None, None, None)

\* OAuthUser.validate_unique of the credential store: the email is unique
validate_unique(u, stored) == u.email \notin stored

UserResult(exc, u, checked) == [exc |-> exc, user |-> u, checked |-> checked]

\* _extract_username without lines 152-156
extract_username_Unchecked(req, stored) ==
  LET un == Lookup(req, "username") IN
  IF ~un.found THEN UserResult("UsernameRequired", NoUser, FALSE)
  ELSE IF ~validate_email(un.value)
       THEN UserResult("InvalidUserCredentials", NoUser, FALSE)
       ELSE LET pw == Lookup(req, "password") IN
            IF ~pw.found THEN UserResult("PasswordRequired", NoUser, FALSE)
            ELSE UserResult(NoExc, OAuthUser(un.value, pw.value, Placeholder, Placeholder), TRUE)

\* _extract_username as a whole: the exception raised (or NoExc), the
\* candidate attached to the request and whether the uniqueness check ran
extract_username(req, stored) ==
  LET un == Lookup(req, "username") IN
  IF ~un.found THEN UserResult("UsernameRequired", NoUser, FALSE)
  ELSE IF ~validate_email(un.value)
       THEN UserResult("InvalidUserCredentials", NoUser, FALSE)
       ELSE LET pw == Lookup(req, "password") IN
            IF ~pw.found THEN UserResult("PasswordRequired", NoUser, FALSE)
            ELSE LET u == OAuthUser(un.value, pw.value, Placeholder, Placeholder) IN
                 IF ~validate_unique(u, stored)
                 THEN UserResult("DuplicateUser", NoUser, TRUE)
                 ELSE UserResult(NoExc, u, TRUE)

(* ------------------------------------------------------------------ *)
(* The optional stages                                                  *)
(* ------------------------------------------------------------------ *)

OptResult(exc, u, av) == [exc |-> exc, user |-> u, account_verified |-> av]

\* _extract_firstname with request.GET tried before request.POST
extract_firstname_QueryFirst(req, u, av) ==
  OptResult(NoExc,
            [u EXCEPT !.first_name =
               IF Has(req.GET, "first_name") THEN req.GET["first_name"]
               ELSE IF Has(req.POST, "first_name") THEN req.POST["first_name"]
               ELSE Placeholder],
            av)

\* _extract_firstname: request.user with first_name set; both KeyErrors are
\* caught, so no exception leaves the stage
extract_firstname(req, u, av) ==
  LET f == Lookup(req, "first_name") IN
  OptResult(NoExc, [u EXCEPT !.first_name = IF f.found THEN f.value ELSE Placeholder], av)

\* _extract_lastname: request.user with last_name set
extract_lastname(req, u, av) ==
  LET f == Lookup(req, "last_name") IN
  OptResult(NoExc, [u EXCEPT !.last_name = IF f.found THEN f.value ELSE Placeholder], av)

\* the raise that line 242 has commented out
extract_active_Raising(req, u, av) ==
  LET f == Lookup(req, "account_verified") IN
  IF f.found THEN OptResult(NoExc, [u EXCEPT !.account_is_verified = f.value], av)
  ELSE OptResult("UsernameRequired", u, av)

\* _extract_active: request.user with account_is_verified set, and
\* request.account_verified, which is set only when the field is absent
extract_active(req, u, av) ==
  LET f == Lookup(req, "account_verified") IN
  IF f.found THEN OptResult(NoExc, [u EXCEPT !.account_is_verified = f.value], av)
  ELSE OptResult(NoExc, [u EXCEPT !.account_is_verified = PyFalse], PyFalse)

(* ------------------------------------------------------------------ *)
(* _extract_scope                                                       *)
(* ------------------------------------------------------------------ *)

\* request.scopes before anything assigned it, kept apart from every set of
\* scope names
NoScopes == { None }

\* the grant types _extract_scope resolves scopes for (line 258)
ScopedGrants == { "client_credentials", "password" }

\* OAuthScope.objects.filter(is_default=True), as the set of scope names
DefaultScopes(sstore) == { n \in DOMAIN sstore : sstore[n] }

\* OAuthScope.objects.filter(scope__in=names), as the set of scope names
ScopesIn(sstore, names) ==
  { n \in DOMAIN sstore : \E i \in 1..Len(names) : names[i] = n }

\* lines 265-271: the list of requested names
RequestedScopes(req) ==
  IF Has(req.POST, "scope") THEN Split(req.POST["scope"], { " " })
  ELSE IF Has(req.GET, "scope") THEN Split(req.GET["scope"], { " " })
  ELSE << >>

\* _extract_scope without the fallback of lines 276-277
extract_scope_NoFallback(req, grant, ignore, sstore, current) ==
  IF grant \notin ScopedGrants THEN current
  ELSE IF ignore THEN DefaultScopes(sstore)
  ELSE ScopesIn(sstore, RequestedScopes(req))

\* _extract_scope without the return of lines 258-259
extract_scope_AnyGrant(req, grant, ignore, sstore, current) ==
  IF ignore THEN DefaultScopes(sstore)
  ELSE LET found == ScopesIn(sstore, RequestedScopes(req)) IN
       IF Cardinality(found) = 0 THEN DefaultScopes(sstore) ELSE found

\* _extract_scope: request.scopes after the call, current being its value
\* before
extract_scope(req, grant, ignore, sstore, current) ==
  IF grant \notin ScopedGrants THEN current
  ELSE IF ignore THEN DefaultScopes(sstore)
  ELSE LET found == ScopesIn(sstore, RequestedScopes(req)) IN
       IF Cardinality(found) = 0 THEN DefaultScopes(sstore) ELSE found

(* ------------------------------------------------------------------ *)
(* decorator: the order of the stages                                   *)
(* ------------------------------------------------------------------ *)

\* lines 281-288 in order; "func" is the call of the protected handler
Stages == << "client", "username", "active", "firstname", "lastname", "func" >>

StageIndex(stage) == CHOOSE i \in 1..Len(Stages) : Stages[i] = stage

\* decorator with lines 282 and 283 exchanged
Successor_Exchanged(stage) ==
  LET order == << "client", "active", "username", "firstname", "lastname", "func" >>
      i == CHOOSE j \in 1..Len(order) : order[j] = stage
  IN  IF i = Len(order) THEN "done" ELSE order[i + 1]

\* the statement of decorator that follows a stage which returned
Successor(stage) ==
  IF StageIndex(stage) = Len(Stages) THEN "done"
  ELSE Stages[StageIndex(stage) + 1]

\* decorator with every stage wrapped in a try that swallows the exception
NextPc_Swallowing(stage, exc) == Successor(stage)

\* where decorator continues after a stage: an exception raised by the
\* stage propagates out of decorator, which has no handler for it
NextPc(stage, exc) == IF exc # NoExc THEN "done" ELSE Successor(stage)

(* ------------------------------------------------------------------ *)
(* Inputs                                                               *)
(* ------------------------------------------------------------------ *)

NewEmail      == << "n", "@", "d", ".", "i", "o" >>
ExistingEmail == << "u", "@", "d", ".", "i", "o" >>
NotAnEmail    == << "n", "o", "t" >>

\* the fields a generated Basic payload is joined from
PayloadFields == { << >>, C1, S1 }

\* payloads of one field (no colon), of two fields, and of the valid pair
\* followed by further fields (more than one colon)
FieldSeqs ==
  UNION { { f \in [1..n -> PayloadFields] :
              n > 2 => (f[1] = C1 /\ \A i \in 2..n : f[i] = S1) } :
          n \in 1..MaxFields }

Payloads == { Join(f, ":") : f \in FieldSeqs }

Header(scheme, sep, auth) == [HTTP_AUTHORIZATION |-> scheme \o sep \o auth]

GoodAuth == B64Encode(Join(<< C1, S1 >>, ":"))

\* request.META: no Authorization header, a Basic header for every payload,
\* other spellings and schemes, and headers that are not two parts
Metas ==
  { EmptyDict }
  \cup { Header(<< "B", "a", "s", "i", "c" >>, << " " >>, B64Encode(pl)) : pl \in Payloads }
  \cup { Header(<< "B", "A", "S", "I", "C" >>, << " " >>, GoodAuth),
         Header(<< "B", "e", "a", "r", "e", "r" >>, << " " >>, GoodAuth),
         Header(<< "D", "i", "g", "e", "s", "t" >>, << " " >>, << "a", ",", "b" >>),
         Header(<< "B", "a", "s", "i", "c" >>, << >>, << >>),
         Header(<< "B", "a", "s", "i", "c" >>, << " ", " " >>, GoodAuth),
         Header(<< "B", "a", "s", "i", "c" >>, << " " >>, SubSeq(GoodAuth, 1, Len(GoodAuth) - 1)) }

PostClients ==
  { EmptyDict, [client_id |-> C1], [client_id |-> C1, client_secret |-> S1],
    [client_id |-> C1, client_secret |-> C1] }

GetClients ==
  { EmptyDict, [client_id |-> S1, client_secret |-> S1],
    [client_id |-> C1, client_secret |-> S1] }

PostUsernames ==
  { EmptyDict, [username |-> NewEmail], [username |-> ExistingEmail],
    [username |-> NotAnEmail] }

GetUsernames == { EmptyDict, [username |-> ExistingEmail] }

\* (form, query) pairs of an optional or password field
FieldPairs(key, formValue, queryValue) ==
  { << f, q >> : f \in { EmptyDict, [k \in {key} |-> formValue] },
                 q \in { EmptyDict, [k \in {key} |-> queryValue] } }

Passwords == FieldPairs("password", << "p", "1" >>, << "p", "2" >>)
FirstNames == FieldPairs("first_name", << "f", "1" >>, << "f", "2" >>)
LastNames == FieldPairs("last_name", << "l", "1" >>, << "l", "2" >>)
Verifieds == FieldPairs("account_verified", << "t" >>, << "f" >>)

NoPair == << EmptyDict, EmptyDict >>

\* the client fields that reach the client from exactly one source
PlainClients ==
  { << Header(<< "B", "a", "s", "i", "c" >>, << " " >>, GoodAuth), EmptyDict, EmptyDict >>,
    << EmptyDict, [client_id |-> C1, client_secret |-> S1], EmptyDict >>,
    << EmptyDict, EmptyDict, [client_id |-> C1, client_secret |-> S1] >> }

\* the requests: every combination of the client fields with the username
\* and password fields, and every combination of the username, password and
\* optional fields for the plain client fields (the client stage reads the
\* client fields only, the optional stages the optional fields only)
Requests ==
  { [META |-> m,
     POST |-> pc @@ pu @@ pw[1] @@ fn[1] @@ ln[1] @@ av[1],
     GET  |-> gc @@ gu @@ pw[2] @@ fn[2] @@ ln[2] @@ av[2]] :
    m \in Metas, pc \in PostClients, gc \in GetClients,
    pu \in PostUsernames, gu \in GetUsernames, pw \in Passwords,
    fn \in { NoPair }, ln \in { NoPair }, av \in { NoPair } }
  \cup
  { [META |-> c[1],
     POST |-> c[2] @@ pu @@ pw[1] @@ fn[1] @@ ln[1] @@ av[1],
     GET  |-> c[3] @@ gu @@ pw[2] @@ fn[2] @@ ln[2] @@ av[2]] :
    c \in PlainClients,
    pu \in PostUsernames, gu \in GetUsernames, pw \in Passwords,
    fn \in FirstNames, ln \in LastNames, av \in Verifieds }

\* the requests of concurrent registrations: a verified or a wrong client
\* secret, a new or a registered username, a password
ConcRequests ==
  { [META |-> m, POST |-> pc @@ pu @@ [password |-> << "p", "1" >>], GET |-> EmptyDict] :
    m \in { Header(<< "B", "a", "s", "i", "c" >>, << " " >>, GoodAuth) },
    pc \in { EmptyDict, [client_id |-> C1, client_secret |-> C1] },
    pu \in { [username |-> NewEmail], [username |-> ExistingEmail] } }
  \cup
  { [META |-> EmptyDict,
     POST |-> [client_id |-> C1, client_secret |-> C1, username |-> NewEmail,
               password |-> << "p", "1" >>],
     GET |-> EmptyDict] }

Read == << "r", "e", "a", "d" >>
Write == << "w", "r", "i", "t", "e" >>
AllScope == << "a", "l", "l" >>
Foo == << "f", "o", "o" >>

\* a store with two scopes that are not default and one that is
MainScopes == [n \in { Read, Write, AllScope } |-> n = AllScope]

\* a store whose default scope is one a client may also ask for by name
ReadDefault == [n \in { Read, Write } |-> n = Read]

\* a store without a default scope
NoDefault == [n \in { Read, Write } |-> FALSE]

ScopeStores == { MainScopes, ReadDefault, NoDefault }

GrantTypes ==
  { "password", "client_credentials", "authorization_code", "refresh_token" }

\* the scope fields: up to MaxScopeNames names separated by one space
ScopeFields ==
  { Join(f, " ") :
      f \in UNION { [1..n -> { Read, Write, AllScope, Foo }] : n \in 0..MaxScopeNames } }

PostScopes == { EmptyDict } \cup { [scope |-> v] : v \in ScopeFields }

GetScopes == { EmptyDict, [scope |-> Read], [scope |-> Foo] }

\* requests for _extract_scope: the client fields in the form body and a
\* scope field in the form body, the query string, both or none
ScopeRequests ==
  { [META |-> EmptyDict,
     POST |-> [client_id |-> C1, client_secret |-> S1] @@ ps,
     GET  |-> gs] : ps \in PostScopes, gs \in GetScopes }

\* the slot of a worker that serves no request
NoRequest == [META |-> EmptyDict, POST |-> EmptyDict, GET |-> EmptyDict]

(* ------------------------------------------------------------------ *)
(* State                                                                *)
(* ------------------------------------------------------------------ *)

VARIABLES
  clients,          \* credential store: client_id -> client secret
  users,            \* credential store: emails of the stored users
  request,          \* request[p]: META, POST and GET of the request of p
  pc,               \* pc[p]: the statement of decorator p is at
  error,            \* error[p]: the exception that left decorator, or NoExc
  client,           \* request.client: the id of the attached client, or None
  cred,             \* the locals client_id, client_secret of _extract_client
  lookups,          \* number of OAuthClient.objects.get calls made for p
  user,             \* request.user
  account_verified, \* request.account_verified
  uniqueness,       \* what validate_unique found: unchecked, unique, duplicate
  called,           \* func(request) has been invoked
  trace,            \* the stages run for p, in order
  grant_type,       \* request.grant_type, set upstream of _extract_scope
  scopes,           \* request.scopes
  ignore_scope,     \* settings.OAUTH2_SERVER['IGNORE_CLIENT_REQUESTED_SCOPE']
  scopeStore,       \* credential store: scope name -> is_default
  saved             \* what became of the caller's save of the candidate

vars == << clients, users, request, pc, error, client, cred, lookups, user,
           account_verified, uniqueness, called, trace, grant_type, scopes,
           ignore_scope, scopeStore, saved >>

\* what only _extract_scope and the caller's save read or write
scopeState == << grant_type, scopes, ignore_scope, scopeStore >>

store == << clients, users >>

InitStore ==
  /\ clients = [id \in { C1 } |-> S1]
  /\ users = { ExistingEmail }

InitWorkers(reqs) ==
  /\ request = reqs
  /\ pc = [p \in Procs |-> IF reqs[p] = NoRequest /\ p # 1 THEN "idle" ELSE "client"]
  /\ error = [p \in Procs |-> NoExc]
  /\ client = [p \in Procs |-> None]
  /\ cred = [p \in Procs |-> [id |-> None, secret |-> None]]
  /\ lookups = [p \in Procs |-> 0]
  /\ user = [p \in Procs |-> NoUser]
  /\ account_verified = [p \in Procs |-> None]
  /\ uniqueness = [p \in Procs |-> "unchecked"]
  /\ called = [p \in Procs |-> FALSE]
  /\ trace = [p \in Procs |-> << >>]
  /\ scopes = [p \in Procs |-> NoScopes]
  /\ saved = [p \in Procs |-> "no"]

\* the settings and the scopes of the store
InitSettings(sstore, ignore) ==
  /\ scopeStore = sstore
  /\ ignore_scope = ignore

\* one request, served by worker 1
Init ==
  /\ InitStore
  /\ InitSettings(MainScopes, FALSE)
  /\ grant_type = [p \in Procs |-> "password"]
  /\ \E r \in Requests :
       InitWorkers([p \in Procs |-> IF p = 1 THEN r ELSE NoRequest])

(* ------------------------------------------------------------------ *)
(* Actions: one per statement of decorator                              *)
(* ------------------------------------------------------------------ *)

Advance(p, stage, exc) ==
  /\ pc' = [pc EXCEPT ![p] = NextPc(stage, exc)]
  /\ error' = [error EXCEPT ![p] = exc]
  /\ trace' = [trace EXCEPT ![p] = Append(@, stage)]

\* line 281
ExtractClient(p) ==
  /\ pc[p] = "client"
  /\ LET r == extract_client(request[p], clients) IN
     /\ client' = [client EXCEPT ![p] = r.client]
     /\ cred' = [cred EXCEPT ![p] = [id |-> r.id, secret |-> r.secret]]
     /\ lookups' = [lookups EXCEPT ![p] = @ + r.lookups]
     /\ Advance(p, "client", r.exc)
  /\ UNCHANGED << store, scopeState, saved, request, user, account_verified, uniqueness, called >>

\* line 282 with a stage that saves the candidate it has found unique
ExtractUsername_Saving(p) ==
  /\ pc[p] = "username"
  /\ LET r == extract_username(request[p], users) IN
     /\ user' = [user EXCEPT ![p] = r.user]
     /\ uniqueness' = [uniqueness EXCEPT ![p] =
          IF ~r.checked THEN @ ELSE IF r.exc = NoExc THEN "unique" ELSE "duplicate"]
     /\ users' = IF r.exc = NoExc THEN users \cup { r.user.email } ELSE users
     /\ Advance(p, "username", r.exc)
  /\ UNCHANGED << clients, scopeState, saved, request, client, cred, lookups, account_verified, called >>

\* line 282
ExtractUsername(p) ==
  /\ pc[p] = "username"
  /\ LET r == extract_username(request[p], users) IN
     /\ user' = [user EXCEPT ![p] = r.user]
     /\ uniqueness' = [uniqueness EXCEPT ![p] =
          IF ~r.checked THEN @ ELSE IF r.exc = NoExc THEN "unique" ELSE "duplicate"]
     /\ Advance(p, "username", r.exc)
  /\ UNCHANGED << store, scopeState, saved, request, client, cred, lookups, account_verified, called >>

\* lines 283-285: an optional stage, which refines request.user
Optional(p, stage, r) ==
  /\ pc[p] = stage
  /\ user' = [user EXCEPT ![p] = r.user]
  /\ account_verified' = [account_verified EXCEPT ![p] = r.account_verified]
  /\ Advance(p, stage, r.exc)
  /\ UNCHANGED << store, scopeState, saved, request, client, cred, lookups, uniqueness, called >>

\* line 283
ExtractActive(p) ==
  Optional(p, "active", extract_active(request[p], user[p], account_verified[p]))

\* line 284
ExtractFirstname(p) ==
  Optional(p, "firstname", extract_firstname(request[p], user[p], account_verified[p]))

\* line 285
ExtractLastname(p) ==
  Optional(p, "lastname", extract_lastname(request[p], user[p], account_verified[p]))

\* line 288: the protected handler is invoked with the request
CallFunc(p) ==
  /\ pc[p] = "func"
  /\ called' = [called EXCEPT ![p] = TRUE]
  /\ Advance(p, "func", NoExc)
  /\ UNCHANGED << store, scopeState, saved, request, client, cred, lookups, user,
                  account_verified, uniqueness >>

\* line 286, which decorator has commented out: _extract_scope(request)
ExtractScope(p) ==
  /\ pc[p] = "scope"
  /\ scopes' = [scopes EXCEPT ![p] =
       extract_scope(request[p], grant_type[p], ignore_scope, scopeStore, @)]
  /\ pc' = [pc EXCEPT ![p] = "done"]
  /\ trace' = [trace EXCEPT ![p] = Append(@, "scope")]
  /\ UNCHANGED << store, request, error, client, cred, lookups, user,
                  account_verified, uniqueness, called, grant_type,
                  ignore_scope, scopeStore, saved >>

Step(p) ==
  \/ ExtractClient(p)
  \/ ExtractUsername(p)
  \/ ExtractActive(p)
  \/ ExtractFirstname(p)
  \/ ExtractLastname(p)
  \/ CallFunc(p)

Next == Step(1)

Spec == Init /\ [][Next]_vars

\* _extract_scope on its own: a request whose client the client stage has
\* attached and whose grant type was set upstream, for every grant type,
\* setting and scope store
ScopeInit ==
  /\ InitStore
  /\ \E sstore \in ScopeStores, ignore \in BOOLEAN : InitSettings(sstore, ignore)
  /\ \E r \in ScopeRequests, g \in GrantTypes :
       /\ request = [p \in Procs |-> IF p = 1 THEN r ELSE NoRequest]
       /\ grant_type = [p \in Procs |-> IF p = 1 THEN g ELSE "password"]
  /\ pc = [p \in Procs |-> IF p = 1 THEN "scope" ELSE "idle"]
  /\ error = [p \in Procs |-> NoExc]
  /\ client = [p \in Procs |-> IF p = 1 THEN C1 ELSE None]
  /\ cred = [p \in Procs |-> IF p = 1 THEN [id |-> C1, secret |-> S1]
                             ELSE [id |-> None, secret |-> None]]
  /\ lookups = [p \in Procs |-> IF p = 1 THEN 1 ELSE 0]
  /\ user = [p \in Procs |-> NoUser]
  /\ account_verified = [p \in Procs |-> None]
  /\ uniqueness = [p \in Procs |-> "unchecked"]
  /\ called = [p \in Procs |-> FALSE]
  /\ trace = [p \in Procs |-> IF p = 1 THEN << "client" >> ELSE << >>]
  /\ scopes = [p \in Procs |-> NoScopes]
  /\ saved = [p \in Procs |-> "no"]

ScopeNext == ExtractScope(1)

ScopeSpec == ScopeInit /\ [][ScopeNext]_vars

(* ------------------------------------------------------------------ *)
(* Outcomes                                                             *)
(* ------------------------------------------------------------------ *)

Finished(p) == pc[p] = "done"

\* Validated: every stage returned and the handler was given the request
Validated(p) == Finished(p) /\ error[p] = NoExc /\ called[p]

\* Rejected with kind e: e of the taxonomy left decorator
Rejected(p, e) == Finished(p) /\ error[p] = e /\ e \in Taxonomy

TypeOK ==
  /\ pc \in [Procs -> { "idle", "client", "username", "active", "firstname",
                        "lastname", "func", "scope", "done" }]
  /\ error \in [Procs -> { NoExc } \cup Taxonomy \cup Uncaught]
  /\ lookups \in [Procs -> 0..1]
  /\ called \in [Procs -> BOOLEAN]
  /\ uniqueness \in [Procs -> { "unchecked", "unique", "duplicate" }]
  /\ saved \in [Procs -> { "no", "saved", "conflict" }]
  /\ ignore_scope \in BOOLEAN

(* ------------------------------------------------------------------ *)
(* Concurrent requests and the callers' persistence                     *)
(* ------------------------------------------------------------------ *)

\* the caller saves the candidate of a Validated run: the store takes the
\* user if its email is still unique, else the caller has a conflict
Persist(p) ==
  /\ Validated(p)
  /\ saved[p] = "no"
  /\ IF validate_unique(user[p], users)
     THEN /\ users' = users \cup { user[p].email }
          /\ saved' = [saved EXCEPT ![p] = "saved"]
     ELSE /\ users' = users
          /\ saved' = [saved EXCEPT ![p] = "conflict"]
  /\ UNCHANGED << clients, scopeState, request, pc, error, client, cred,
                  lookups, user, account_verified, uniqueness, called, trace >>

\* one request for each worker
ConcInit ==
  /\ InitStore
  /\ InitSettings(MainScopes, FALSE)
  /\ grant_type = [p \in Procs |-> "password"]
  /\ \E reqs \in [Procs -> ConcRequests] : InitWorkers(reqs)

\* the workers run decorator one statement at a time in any interleaving,
\* and the callers save when their run has succeeded
ConcNext == \E p \in Procs : Step(p) \/ Persist(p)

ConcSpec == ConcInit /\ [][ConcNext]_vars

(* ------------------------------------------------------------------ *)
(* Vocabulary of the properties                                         *)
(* ------------------------------------------------------------------ *)

IsPrefix(s, t) == Len(s) <= Len(t) /\ s = SubSeq(t, 1, Len(s))

\* the stage p ran in this step, if it ran one
Ran(p, stage) == trace'[p] = Append(trace[p], stage)

\* everything the pipeline keeps for p
Context(p) == << pc[p], error[p], client[p], cred[p], lookups[p], user[p],
                 account_verified[p], uniqueness[p], called[p], trace[p] >>

\* the exception the stage that ran last raised, computed from the request
RaisedBy(p) ==
  IF trace[p] = << "client" >> THEN extract_client(request[p], clients).exc
  ELSE IF trace[p] = << "client", "username" >>
       THEN extract_username(request[p], users).exc
       ELSE NoExc

(* ------------------------------------------------------------------ *)
(* C1                                                                   *)
(* ------------------------------------------------------------------ *)

\* C1: fail-fast.  Once _extract_client or _extract_username has raised, the
\* run is over: the exception that left decorator is the one that stage
\* raised, the handler has not been invoked, and no later step runs a stage,
\* invokes the handler or changes the outcome.
C1_FailFast ==
  /\ [](\A p \in Procs :
          error[p] # NoExc =>
            /\ Finished(p)
            /\ ~called[p]
            /\ trace[p] \in { << "client" >>, << "client", "username" >> }
            /\ error[p] = RaisedBy(p))
  /\ [][\A p \in Procs : error[p] # NoExc => Context(p)' = Context(p)]_vars

\* a run rejected by the client stage whose request has a username and a
\* password, which the next stage would have accepted
C1_Witness ==
  /\ Rejected(1, "InvalidClientCredentials")
  /\ trace[1] = << "client" >>
  /\ extract_username(request[1], users).exc = NoExc

(* ------------------------------------------------------------------ *)
(* C2                                                                   *)
(* ------------------------------------------------------------------ *)

\* C2: the stages run in the order client, username, active, firstname,
\* lastname, each at most once; the handler is invoked only when all five
\* have run; and active, firstname and lastname run only when request.user
\* holds a candidate.
C2_StageOrder ==
  /\ [](\A p \in Procs :
          /\ IsPrefix(trace[p], Stages)
          /\ called[p] => trace[p] = Stages)
  /\ [][\A p \in Procs :
          (Ran(p, "active") \/ Ran(p, "firstname") \/ Ran(p, "lastname"))
            => user[p] # NoUser]_vars

\* a run in which all five stages ran and the handler was invoked
C2_Witness == called[1] /\ trace[1] = Stages /\ Validated(1)

(* ------------------------------------------------------------------ *)
(* What a request supplies, read off the request alone                  *)
(* ------------------------------------------------------------------ *)

\* no pair
NoCreds == << >>

RECURSIVE FirstIndex(_, _, _)
\* the first position of ch in s[i..], 0 when there is none
FirstIndex(s, ch, i) ==
  IF i > Len(s) THEN 0 ELSE IF s[i] = ch THEN i ELSE FirstIndex(s, ch, i + 1)

\* id:secret cut at the first colon
SplitOnce(s) ==
  LET i == FirstIndex(s, ":", 1) IN
  IF i = 0 THEN NoCreds ELSE << SubSeq(s, 1, i - 1), SubSeq(s, i + 1, Len(s)) >>

\* the two parts "<scheme> <payload>" of the Authorization header
HeaderParts(META) ==
  IF ~Has(META, "HTTP_AUTHORIZATION") THEN << >>
  ELSE Split(META["HTTP_AUTHORIZATION"], { " " })

\* the header is a scheme followed by base64 of id:secret
HeaderDecodes(META) ==
  /\ Len(HeaderParts(META)) = 2
  /\ b64decode(HeaderParts(META)[2]) # B64Error
  /\ FirstIndex(b64decode(HeaderParts(META)[2]), ":", 1) # 0

\* the decoded payload of a Basic header, NoCreds when there is none
BasicPayload(META) ==
  IF HeaderDecodes(META) /\ Lower(HeaderParts(META)[1]) = Basic
  THEN b64decode(HeaderParts(META)[2])
  ELSE NoCreds

\* the pair a Basic header carries
HeaderPair(META) ==
  IF BasicPayload(META) = NoCreds THEN NoCreds ELSE SplitOnce(BasicPayload(META))

\* the pair the form body or the query string carries
FieldsPair(d) ==
  IF Has(d, "client_id") /\ Has(d, "client_secret")
  THEN << d["client_id"], d["client_secret"] >>
  ELSE NoCreds

\* the source supplies both client_id and client_secret
SuppliesBoth(pair) == pair # NoCreds /\ pair[1] # << >> /\ pair[2] # << >>

\* the pair of locals _extract_client ended with
CheckedPair(p) == << cred[p].id, cred[p].secret >>

(* ------------------------------------------------------------------ *)
(* C3                                                                   *)
(* ------------------------------------------------------------------ *)

\* C3: whenever request.user holds a candidate (with its names and verified
\* flag), request.account_verified is set or the handler has been invoked,
\* request.client is a client of the store whose secret the store verified
\* against the secret of a pair that this request supplies.
C3_ClientVerifiedFirst ==
  \A p \in Procs :
    (user[p] # NoUser \/ account_verified[p] # None \/ called[p]) =>
      /\ client[p] \in DOMAIN clients
      /\ lookups[p] = 1
      /\ cred[p].id = client[p]
      /\ clients[client[p]] = cred[p].secret
      /\ CheckedPair(p) \in { HeaderPair(request[p].META),
                              FieldsPair(request[p].POST),
                              FieldsPair(request[p].GET) }

\* the handler has been invoked for a request whose form body carries a
\* wrong secret and whose header carries the right one
C3_Witness ==
  /\ called[1]
  /\ client[1] = C1
  /\ FieldsPair(request[1].POST) = << C1, C1 >>

(* ------------------------------------------------------------------ *)
(* C4                                                                   *)
(* ------------------------------------------------------------------ *)

\* C4: a request in which neither the Basic header, nor the form body, nor
\* the query string supplies both client_id and client_secret ends Rejected
\* with ClientCredentialsRequired, and the client store is not consulted.
C4_CredentialsRequired ==
  \A p \in Procs :
    ( /\ Finished(p)
      /\ ~SuppliesBoth(HeaderPair(request[p].META))
      /\ ~SuppliesBoth(FieldsPair(request[p].POST))
      /\ ~SuppliesBoth(FieldsPair(request[p].GET)) )
    => (Rejected(p, "ClientCredentialsRequired") /\ lookups[p] = 0)

(* ------------------------------------------------------------------ *)
(* C5                                                                   *)
(* ------------------------------------------------------------------ *)

\* C5: the pair looked up in the store is the pair of one source: the Basic
\* header's if it supplies both values, else the form body's if it has both
\* fields, else the query string's, which then has both fields.
C5_OneSource ==
  \A p \in Procs :
    lookups[p] > 0 =>
      IF SuppliesBoth(HeaderPair(request[p].META))
      THEN CheckedPair(p) = HeaderPair(request[p].META)
      ELSE IF FieldsPair(request[p].POST) # NoCreds
           THEN CheckedPair(p) = FieldsPair(request[p].POST)
           ELSE /\ FieldsPair(request[p].GET) # NoCreds
                /\ CheckedPair(p) = FieldsPair(request[p].GET)

\* the store was asked for the query string's pair although the header
\* carries an id without a secret and the form body has a client_id
C5_Witness ==
  /\ lookups[1] = 1
  /\ HeaderPair(request[1].META) = << C1, << >> >>
  /\ Has(request[1].POST, "client_id")
  /\ ~Has(request[1].POST, "client_secret")
  /\ CheckedPair(1) = FieldsPair(request[1].GET)

(* ------------------------------------------------------------------ *)
(* C6                                                                   *)
(* ------------------------------------------------------------------ *)

\* C6: a request whose Authorization header is not a scheme followed by
\* base64 of id:secret, and which has no client field in the form body or
\* the query string, ends Rejected with ClientCredentialsRequired or
\* InvalidClientCredentials.
C6_UndecodableHeaderRejected ==
  \A p \in Procs :
    ( /\ Finished(p)
      /\ Has(request[p].META, "HTTP_AUTHORIZATION")
      /\ ~HeaderDecodes(request[p].META)
      /\ FieldsPair(request[p].POST) = NoCreds
      /\ FieldsPair(request[p].GET) = NoCreds )
    => ( \/ Rejected(p, "ClientCredentialsRequired")
         \/ Rejected(p, "InvalidClientCredentials") )

(* ------------------------------------------------------------------ *)
(* C7                                                                   *)
(* ------------------------------------------------------------------ *)

\* the number of colons of s
Colons(s) == Cardinality({ i \in 1..Len(s) : s[i] = ":" })

\* C7: for a Basic header whose payload has more than one colon, the stage
\* looks up the store with the text before the first colon as client_id and
\* everything after it as client_secret.
C7_SplitOnce ==
  \A p \in Procs :
    ( /\ Finished(p)
      /\ BasicPayload(request[p].META) # NoCreds
      /\ Colons(BasicPayload(request[p].META)) > 1 )
    => ( /\ lookups[p] = 1
         /\ CheckedPair(p) = SplitOnce(BasicPayload(request[p].META)) )

(* ------------------------------------------------------------------ *)
(* C8                                                                   *)
(* ------------------------------------------------------------------ *)

\* the pair looked up names no client of the store
UnknownClient(p) == lookups[p] > 0 /\ cred[p].id \notin DOMAIN clients

\* the pair looked up names a client of the store with another secret
WrongSecret(p) ==
  /\ lookups[p] > 0
  /\ cred[p].id \in DOMAIN clients
  /\ clients[cred[p].id] # cred[p].secret

\* C8: a run whose pair names no client of the store and a run whose pair
\* names a client with a secret that fails verification have one and the
\* same outcome: Rejected with InvalidClientCredentials after the client
\* stage, nothing attached to the request, the handler not invoked.
C8_ExistenceNotObservable ==
  \A p \in Procs :
    (UnknownClient(p) \/ WrongSecret(p)) =>
      /\ Rejected(p, "InvalidClientCredentials")
      /\ trace[p] = << "client" >>
      /\ client[p] = None
      /\ user[p] = NoUser
      /\ account_verified[p] = None
      /\ ~called[p]

\* a run rejected for a client that does not exist
C8_Witness == UnknownClient(1) /\ Finished(1) /\ cred[1].secret = S1

(* ------------------------------------------------------------------ *)
(* C9                                                                   *)
(* ------------------------------------------------------------------ *)

\* the username and the password of the request, form body before query
Username(p) == Lookup(request[p], "username")
Password(p) == Lookup(request[p], "password")

\* a Validated run has a candidate whose username is a valid email that
\* no stored user had when uniqueness was checked, and a password
ValidatedCandidate(p) ==
  Validated(p) =>
    /\ user[p].email = Username(p).value
    /\ validate_email(user[p].email)
    /\ uniqueness[p] = "unique"
    /\ user[p].email \notin users
    /\ Password(p).found
    /\ user[p].password = Password(p).value

\* C9 as stated: a Validated run has a valid, unregistered username and a
\* password; a request whose username is no valid email ends Rejected with
\* InvalidUserCredentials; a request whose valid username is registered ends
\* Rejected with DuplicateUser.
C9_AsStated ==
  \A p \in Procs :
    /\ ValidatedCandidate(p)
    /\ (Finished(p) /\ Username(p).found /\ ~validate_email(Username(p).value))
         => Rejected(p, "InvalidUserCredentials")
    /\ (Finished(p) /\ Username(p).found /\ validate_email(Username(p).value)
          /\ Username(p).value \in users)
         => Rejected(p, "DuplicateUser")

\* C9, amended: a Validated run has a valid, unregistered username and a
\* password; a request that passes the client stage and whose username is no
\* valid email ends Rejected with InvalidUserCredentials; a request that
\* passes the client stage, supplies a password and whose valid username is
\* registered ends Rejected with DuplicateUser.
C9_UserIdentity ==
  \A p \in Procs :
    /\ ValidatedCandidate(p)
    /\ (Finished(p) /\ client[p] # None
          /\ Username(p).found /\ ~validate_email(Username(p).value))
         => Rejected(p, "InvalidUserCredentials")
    /\ (Finished(p) /\ client[p] # None /\ Password(p).found
          /\ Username(p).found /\ validate_email(Username(p).value)
          /\ Username(p).value \in users)
         => (Rejected(p, "DuplicateUser") /\ uniqueness[p] = "duplicate")

\* a Validated run whose form body has a new username while the query
\* string has a registered one
C9_Witness ==
  /\ Validated(1)
  /\ user[1].email = NewEmail
  /\ Has(request[1].GET, "username")
  /\ request[1].GET["username"] \in users

(* ------------------------------------------------------------------ *)
(* C10                                                                  *)
(* ------------------------------------------------------------------ *)

\* C10: once _extract_client and _extract_username have returned, no
\* exception leaves decorator whatever first_name, last_name and
\* account_verified the form body and the query string have: the run is at
\* an optional stage or at the call of the handler, its next statement can
\* always run, and when it is over it is Validated with the handler invoked.
C10_OptionalNeverReject ==
  \A p \in Procs :
    user[p] # NoUser =>
      /\ error[p] = NoExc
      /\ pc[p] \in { "active", "firstname", "lastname", "func", "done" }
      /\ ~Finished(p) => ENABLED Step(p)
      /\ Finished(p) => (Validated(p) /\ called[p])

\* a Validated run of a request with none of the optional fields
C10_Witness ==
  /\ Validated(1)
  /\ ~Lookup(request[1], "first_name").found
  /\ ~Lookup(request[1], "last_name").found
  /\ ~Lookup(request[1], "account_verified").found

(* ------------------------------------------------------------------ *)
(* C11                                                                  *)
(* ------------------------------------------------------------------ *)

\* the value of a field: the form body's if it has the field, else the
\* query string's if it has the field, else the default
FieldOr(p, key, default) ==
  IF Has(request[p].POST, key) THEN request[p].POST[key]
  ELSE IF Has(request[p].GET, key) THEN request[p].GET[key]
  ELSE default

\* C11: in a Validated run, first_name and last_name of the candidate are
\* the form value if the form has the field, else the query value if the
\* query has it, else "No name given"; account_is_verified is the form value
\* of account_verified if present, else the query value, else False.
C11_OptionalValues ==
  \A p \in Procs :
    Validated(p) =>
      /\ user[p].first_name = FieldOr(p, "first_name", Placeholder)
      /\ user[p].last_name = FieldOr(p, "last_name", Placeholder)
      /\ user[p].account_is_verified = FieldOr(p, "account_verified", PyFalse)

\* a Validated run whose first_name is in the form body and in the query
\* string, whose last_name is in the query string only and which has no
\* account_verified
C11_Witness ==
  /\ Validated(1)
  /\ Has(request[1].POST, "first_name") /\ Has(request[1].GET, "first_name")
  /\ ~Has(request[1].POST, "last_name") /\ Has(request[1].GET, "last_name")
  /\ user[1].account_is_verified = PyFalse

(* ------------------------------------------------------------------ *)
(* C12                                                                  *)
(* ------------------------------------------------------------------ *)

\* a request with a valid client in a Basic header, a valid new username, a
\* password, none of the optional fields and no scope field, of grant type
\* password, on a server that does not ignore the requested scope
EndToEndRequest(p) ==
  /\ SuppliesBoth(HeaderPair(request[p].META))
  /\ HeaderPair(request[p].META)[1] \in DOMAIN clients
  /\ clients[HeaderPair(request[p].META)[1]] = HeaderPair(request[p].META)[2]
  /\ Username(p).found
  /\ validate_email(Username(p).value)
  /\ Username(p).value \notin users
  /\ Password(p).found
  /\ \A k \in { "first_name", "last_name", "account_verified", "scope" } :
       ~Has(request[p].POST, k) /\ ~Has(request[p].GET, k)
  /\ grant_type[p] = "password"
  /\ ~ignore_scope

\* what the handler is given, but for the scopes
EndToEndContext(p) ==
  /\ Validated(p)
  /\ client[p] = HeaderPair(request[p].META)[1]
  /\ user[p].email = Username(p).value
  /\ user[p].first_name = Placeholder
  /\ user[p].last_name = Placeholder
  /\ user[p].account_is_verified = PyFalse

ScopeField(p) == FieldOr(p, "scope", << >>)

\* the names of a space-separated field: its maximal runs without a space
NamesOf(field) ==
  { SubSeq(field, i[1], i[2]) :
      i \in { ij \in (1..Len(field)) \X (1..Len(field)) :
                /\ ij[1] <= ij[2]
                /\ \A k \in ij[1]..ij[2] : field[k] # " "
                /\ (ij[1] = 1 \/ field[ij[1] - 1] = " ")
                /\ (ij[2] = Len(field) \/ field[ij[2] + 1] = " ") } }

\* the known scopes the request names
KnownRequested(p) == NamesOf(ScopeField(p)) \cap DOMAIN scopeStore

\* _extract_scope has run for p
ScopeResolved(p) == Len(trace[p]) > 0 /\ trace[p][Len(trace[p])] = "scope"

\* C13: for grant type client_credentials or password, request.scopes after
\* _extract_scope is the default set if the server ignores the requested
\* scope; else the known scopes named in the scope field (form before
\* query) if there is one, and the default set if there is none.
C13_ScopePolicy ==
  \A p \in Procs :
    (ScopeResolved(p) /\ grant_type[p] \in ScopedGrants) =>
      scopes[p] = IF ignore_scope THEN DefaultScopes(scopeStore)
                  ELSE IF KnownRequested(p) # {} THEN KnownRequested(p)
                       ELSE DefaultScopes(scopeStore)

\* scope "read write" of the form body, both known and not default, has
\* given exactly read and write although the query string names another
C13_Witness ==
  /\ ScopeResolved(1)
  /\ grant_type[1] = "client_credentials"
  /\ ~ignore_scope
  /\ Has(request[1].POST, "scope")
  /\ request[1].POST["scope"] = Join(<< Read, Write >>, " ")
  /\ Has(request[1].GET, "scope")
  /\ scopeStore = MainScopes
  /\ scopes[1] = { Read, Write }

(* ------------------------------------------------------------------ *)
(* C14                                                                  *)
(* ------------------------------------------------------------------ *)

\* C14: for a grant type other than client_credentials and password,
\* _extract_scope leaves request.scopes unset and changes nothing else of
\* the request, whatever the scope field and the server's setting.
C14_OtherGrantNoOp ==
  /\ [](\A p \in Procs :
          (ScopeResolved(p) /\ grant_type[p] \notin ScopedGrants) =>
            scopes[p] = NoScopes)
  /\ [][\A p \in Procs :
          (Ran(p, "scope") /\ grant_type[p] \notin ScopedGrants) =>
            /\ scopes'[p] = scopes[p]
            /\ << request[p], client[p], user[p], account_verified[p],
                  grant_type[p], error[p], called[p] >>' =
               << request[p], client[p], user[p], account_verified[p],
                  grant_type[p], error[p], called[p] >>
            /\ UNCHANGED << store, ignore_scope, scopeStore >>]_vars

\* _extract_scope has run for grant type authorization_code with known
\* names in the scope field on a server that ignores the requested scope
C14_Witness ==
  /\ ScopeResolved(1)
  /\ grant_type[1] = "authorization_code"
  /\ ignore_scope
  /\ KnownRequested(1) # {}
  /\ DefaultScopes(scopeStore) # {}
  /\ scopes[1] = NoScopes

(* ------------------------------------------------------------------ *)
(* C15                                                                  *)
(* ------------------------------------------------------------------ *)

\* p has passed the uniqueness check and its caller has not yet saved
InWindow(p) == uniqueness[p] = "unique" /\ saved[p] = "no" /\ error[p] = NoExc

\* no caller has saved a user with this email
SavedByNone(email) ==
  \A r \in Procs : ~(saved[r] = "saved" /\ user[r].email = email)

\* C15: while one run is between its uniqueness check and its caller's
\* save and no caller has saved its username, a concurrent run that is at
\* the username stage with the same username passes the uniqueness check
\* too (no DuplicateUser); a conflict of such runs shows only when a later
\* caller saves.
C15_NoAtomicity ==
  /\ \A p, q \in Procs :
       ( /\ p # q
         /\ InWindow(p)
         /\ SavedByNone(user[p].email)
         /\ pc[q] = "username"
         /\ Username(q).found /\ Username(q).value = user[p].email
         /\ Password(q).found )
       => ( /\ ENABLED ExtractUsername(q)
            /\ extract_username(request[q], users).exc = NoExc )
  /\ \A p \in Procs :
       saved[p] = "conflict" =>
         /\ Validated(p)
         /\ uniqueness[p] = "unique"
         /\ \E q \in Procs \ { p } :
              saved[q] = "saved" /\ user[q].email = user[p].email

\* two runs for the same unregistered username are both Validated
C15_Witness ==
  /\ Validated(1) /\ Validated(2)
  /\ user[1].email = NewEmail /\ user[2].email = NewEmail
  /\ uniqueness[1] = "unique" /\ uniqueness[2] = "unique"
  /\ NewEmail \notin users

(* ------------------------------------------------------------------ *)
(* C16                                                                  *)
(* ------------------------------------------------------------------ *)

\* C16: a step of a pipeline stage leaves the stored clients, users and
\* scopes as they are, whether the run goes on, is Rejected or is
\* Validated; the stored users change only when the caller of a Validated
\* run saves its candidate.
C16_StoreReadOnly ==
  [][ /\ clients' = clients
      /\ scopeStore' = scopeStore
      /\ (\E p \in Procs : pc'[p] # pc[p]) => users' = users
      /\ users' # users =>
           \E p \in Procs : /\ Validated(p)
                            /\ saved[p] = "no" /\ saved'[p] = "saved"
                            /\ users' = users \cup { user[p].email } ]_vars

\* one run is Validated and one Rejected, the candidate of the first is
\* in its request only and the store is as it was
C16_Witness ==
  /\ Validated(1) /\ saved[1] = "no"
  /\ user[1].email = NewEmail
  /\ Rejected(2, "InvalidClientCredentials")
  /\ users = { ExistingEmail }
  /\ clients = [id \in { C1 } |-> S1]

(* ------------------------------------------------------------------ *)
(* C17                                                                  *)
(* ------------------------------------------------------------------ *)

\* the pair of the first source that supplies one
SuppliedPair(p) ==
  IF SuppliesBoth(HeaderPair(request[p].META)) THEN HeaderPair(request[p].META)
  ELSE IF FieldsPair(request[p].POST) # NoCreds THEN FieldsPair(request[p].POST)
  ELSE FieldsPair(request[p].GET)

\* the first check, in the fixed order, that the request of p fails
FirstFailing(p) ==
  IF SuppliedPair(p) = NoCreds THEN "ClientCredentialsRequired"
  ELSE IF ~( /\ SuppliedPair(p)[1] \in DOMAIN clients
             /\ clients[SuppliedPair(p)[1]] = SuppliedPair(p)[2] )
       THEN "InvalidClientCredentials"
  ELSE IF ~Username(p).found THEN "UsernameRequired"
  ELSE IF ~validate_email(Username(p).value) THEN "InvalidUserCredentials"
  ELSE IF ~Password(p).found THEN "PasswordRequired"
  ELSE IF Username(p).value \in users THEN "DuplicateUser"
  ELSE NoExc

\* C17: the error a finished run reports is the first check its request
\* fails in the order ClientCredentialsRequired, InvalidClientCredentials,
\* UsernameRequired, InvalidUserCredentials, PasswordRequired,
\* DuplicateUser (none if it fails none), and uniqueness was checked only
\* for a username that is a valid email with a password present.
C17_FirstFailingCheck ==
  \A p \in Procs :
    Finished(p) =>
      /\ error[p] = FirstFailing(p)
      /\ uniqueness[p] # "unchecked" =>
           /\ Username(p).found /\ validate_email(Username(p).value)
           /\ Password(p).found

(* ------------------------------------------------------------------ *)
(* C18                                                                  *)
(* ------------------------------------------------------------------ *)

\* the scheme of an Authorization header: its text before the first
\* delimiter
SchemeOf(h) ==
  LET ds == { i \in 1..Len(h) : h[i] \in HeaderDelims } IN
  IF ds = {} THEN h
  ELSE SubSeq(h, 1, (CHOOSE i \in ds : \A j \in ds : i <= j) - 1)

\* the header has another scheme than Basic, or is a Basic header whose
\* payload has an empty id or an empty secret
HeaderWithoutCredentials(META) ==
  /\ Has(META, "HTTP_AUTHORIZATION")
  /\ \/ Lower(SchemeOf(META["HTTP_AUTHORIZATION"])) # Basic
     \/ /\ HeaderPair(META) # NoCreds
        /\ ~SuppliesBoth(HeaderPair(META))

\* C18: a run whose Authorization header has another scheme than Basic, or
\* is a Basic header with an empty id or secret, looks up the form body's
\* pair if the form body has both fields, else the query string's if that
\* has both, and else is Rejected with ClientCredentialsRequired without a
\* lookup; no value of the header is looked up.
C18_HeaderWithoutCredentials ==
  \A p \in Procs :
    (Finished(p) /\ HeaderWithoutCredentials(request[p].META)) =>
      IF FieldsPair(request[p].POST) # NoCreds
      THEN lookups[p] = 1 /\ CheckedPair(p) = FieldsPair(request[p].POST)
      ELSE IF FieldsPair(request[p].GET) # NoCreds
           THEN lookups[p] = 1 /\ CheckedPair(p) = FieldsPair(request[p].GET)
           ELSE Rejected(p, "ClientCredentialsRequired") /\ lookups[p] = 0

=============================================================================
